---- MODULE Spec2Model ----
(***************************************************************************)
(* Model of the tic-tac-toe game of src/game.py: the GameFrame round state *)
(* (board, current_player, game_over), the controller's game_mode and      *)
(* records, the raised frame, the Tk timer queue holding the delayed       *)
(* ai_move callbacks, and the minimax search of the computer opponent.     *)
(* Tk runs every handler to completion on one thread, so each handler is   *)
(* one atomic action.                                                      *)
(***************************************************************************)
EXTENDS Integers, Sequences, FiniteSets, TLC

VARIABLES
    board,           \* GameFrame.board: board[row][col] in {"", "X", "O"}
    current_player,  \* GameFrame.current_player
    game_over,       \* GameFrame.game_over
    game_mode,       \* TicTacToeApp.game_mode: "2P" or "1P"
    records,         \* TicTacToeApp.records: the three counters
    frame,           \* the frame show_frame raised last (the one that gets the clicks)
    pending,         \* number of ai_move callbacks scheduled with self.after, not yet fired
    handler,         \* the handler that ran last, and the branch it took
    search           \* the last search call observed: its arguments and what it left

vars == <<board, current_player, game_over, game_mode, records, frame, pending, handler, search>>

\* ---------------------------------------------------------------- bounds
\* at most MaxRounds rounds are ended (caps the record counters)
MaxRounds == 1
\* at most MaxPending ai_move callbacks wait in the timer queue
MaxPending == 1
\* the un-memoised search is run on boards with at most MaxEmpty empty cells
MaxEmpty == 2

\* ---------------------------------------------------------------- values
Idx == 0..2
EmptyBoard == [i \in Idx |-> [j \in Idx |-> ""]]
Cells == Idx \X Idx

\* math.inf and -math.inf: they are only ever compared with the scores -1, 0, 1
PosInf == 2
NegInf == -2

Max(a, b) == IF a >= b THEN a ELSE b
Min(a, b) == IF a <= b THEN a ELSE b

CountOf(b, m) == Cardinality({c \in Cells : b[c[1]][c[2]] = m})

\* ---------------------------------------------------------------- board queries
\* check_winner(player), on the board b
check_winner(b, player) ==
    \/ \E i \in Idx : \/ \A j \in Idx : b[i][j] = player
                      \/ \A j \in Idx : b[j][i] = player
    \/ \A i \in Idx : b[i][i] = player
    \/ \A i \in Idx : b[i][2 - i] = player

\* check_draw() with range(2) for the rows: the last row is never looked at
check_draw_two_rows(b) == \A i \in 0..1 : \A j \in Idx : b[i][j] # ""

\* check_draw(), on the board b
check_draw(b) == \A i \in Idx : \A j \in Idx : b[i][j] # ""

\* ---------------------------------------------------------------- boards as numbers
\* Every board has a number in 1..NumBoards (base 3, cell (i, j) is digit 3i + j);
\* it only indexes the memo table of the search.
NumBoards == 3 ^ 9
Digit(m) == IF m = "" THEN 0 ELSE IF m = "X" THEN 1 ELSE 2
MarkOf(d) == IF d = 0 THEN "" ELSE IF d = 1 THEN "X" ELSE "O"
Code(b) ==
    1 + Digit(b[0][0]) + 3 * Digit(b[0][1]) + 9 * Digit(b[0][2])
      + 27 * Digit(b[1][0]) + 81 * Digit(b[1][1]) + 243 * Digit(b[1][2])
      + 729 * Digit(b[2][0]) + 2187 * Digit(b[2][1]) + 6561 * Digit(b[2][2])
Decode(c) == [i \in Idx |-> [j \in Idx |-> MarkOf(((c - 1) \div (3 ^ (3 * i + j))) % 3)]]
BoardOf == [c \in 1..NumBoards |-> Decode(c)] \o <<>>
EmptyOf == [c \in 1..NumBoards |-> CountOf(BoardOf[c], "")] \o <<>>

\* ---------------------------------------------------------------- search
\* The search works in place on the one board object (ai_move passes self.board),
\* so every operator here returns the board as the code leaves it, next to its
\* result.

\* board[i][j] = "O" / "X": the hypothetical placement
place(b, i, j, mark) == [b EXCEPT ![i][j] = mark]

\* the undo left out
undo_missing(b, i, j) == b

\* board[i][j] = "": the undo of the hypothetical placement
undo(b, i, j) == [b EXCEPT ![i][j] = ""]

\* min(score, best_score) on both branches
better_min_only(is_maximizing, score, best_score) == Min(score, best_score)

\* best_score = max(score, best_score) / min(score, best_score)
better(is_maximizing, score, best_score) ==
    IF is_maximizing THEN Max(score, best_score) ELSE Min(score, best_score)

RECURSIVE minimax_body(_, _, _, _), minimax_loop(_, _, _, _, _, _), minimax_call(_, _, _, _)

\* self.minimax(board, depth + 1, ...): the recursive call. memo = <<>> runs the
\* callee; a memo table holds what the callee returns for every board with fewer
\* empty cells (the result depends on the board and is_maximizing alone, depth is
\* passed on and never read).
minimax_call(memo, b, depth, is_maximizing) ==
    IF memo = <<>> THEN minimax_body(memo, b, depth, is_maximizing)
    ELSE memo[Code(b)][IF is_maximizing THEN 2 ELSE 1]

\* the two nested for-loops of minimax, from cell k (row-major) on
minimax_loop(memo, b, depth, is_maximizing, k, best_score) ==
    IF k > 8 THEN [score |-> best_score, board |-> b]
    ELSE LET i == k \div 3
             j == k % 3
         IN  IF b[i][j] = ""
             THEN LET r == minimax_call(memo, place(b, i, j, IF is_maximizing THEN "O" ELSE "X"),
                                        depth + 1, ~is_maximizing)
                  IN  minimax_loop(memo, undo(r.board, i, j), depth, is_maximizing, k + 1,
                                   better(is_maximizing, r.score, best_score))
             ELSE minimax_loop(memo, b, depth, is_maximizing, k + 1, best_score)

\* minimax(board, depth, is_maximizing)
minimax_body(memo, b, depth, is_maximizing) ==
    IF check_winner(b, "O") THEN [score |-> 1, board |-> b]
    ELSE IF check_winner(b, "X") THEN [score |-> -1, board |-> b]
    ELSE IF check_draw(b) THEN [score |-> 0, board |-> b]
    ELSE minimax_loop(memo, b, depth, is_maximizing, 0,
                      IF is_maximizing THEN NegInf ELSE PosInf)

\* the memo table of the boards with at most n empty cells, from the one of the
\* boards with fewer: entry Code(b) is <<minimax(b, _, FALSE), minimax(b, _, TRUE)>>
MemoLevel(n, prev) ==
    [c \in 1..NumBoards |->
        IF EmptyOf[c] = n
        THEN <<minimax_body(prev, BoardOf[c], 0, FALSE), minimax_body(prev, BoardOf[c], 0, TRUE)>>
        ELSE IF EmptyOf[c] < n THEN prev[c] ELSE <<>>] \o <<>>
Memo0 == MemoLevel(0, <<>>)
Memo1 == MemoLevel(1, Memo0)
Memo2 == MemoLevel(2, Memo1)
Memo3 == MemoLevel(3, Memo2)
Memo4 == MemoLevel(4, Memo3)
Memo5 == MemoLevel(5, Memo4)
Memo6 == MemoLevel(6, Memo5)
Memo7 == MemoLevel(7, Memo6)
Memo8 == MemoLevel(8, Memo7)
Memo9 == MemoLevel(9, Memo8)

\* self.minimax(board, depth, is_maximizing), memoised
minimax(b, depth, is_maximizing) == minimax_call(Memo9, b, depth, is_maximizing)

\* self.minimax(board, depth, is_maximizing), run as the recursion it is
minimax_direct(b, depth, is_maximizing) == minimax_body(<<>>, b, depth, is_maximizing)

\* score >= best_score: a later cell of equal score replaces the earlier one
improves_or_ties(score, best_score) == score >= best_score

\* if score > best_score: the candidate replaces the best move so far
improves(score, best_score) == score > best_score

\* the search loop of ai_move, from cell k (row-major) on; best_move <<>> is None
RECURSIVE ai_loop(_, _, _, _)
ai_loop(b, k, best_score, best_move) ==
    IF k > 8 THEN [best_move |-> best_move, best_score |-> best_score, board |-> b]
    ELSE LET i == k \div 3
             j == k % 3
         IN  IF b[i][j] = ""
             THEN LET r == minimax(place(b, i, j, "O"), 0, FALSE)
                  IN  IF improves(r.score, best_score)
                      THEN ai_loop(undo(r.board, i, j), k + 1, r.score, <<i, j>>)
                      ELSE ai_loop(undo(r.board, i, j), k + 1, best_score, best_move)
             ELSE ai_loop(b, k + 1, best_score, best_move)

\* ai_move up to the end of its search loop: the move it found, and the board as
\* the loop leaves it
ai_search(b) == ai_loop(b, 0, NegInf, <<>>)

\* ai_search of every board, computed once
AiMemo == [c \in 1..NumBoards |-> ai_search(BoardOf[c])] \o <<>>
\* a search that settles on the centre cell without testing that it is empty
best_move_centre(b) == [best_move |-> <<1, 1>>, best_score |-> 0, board |-> b]
best_move_of(b) == AiMemo[Code(b)]


\* ---------------------------------------------------------------- the game
NoSearch == <<>>

Rounds == records.player_x_wins + records.player_o_wins + records.draws

\* start_new_game()
start_new_game ==
    /\ board' = EmptyBoard
    /\ current_player' = "X"
    /\ game_over' = FALSE

\* end_game with a win of O counted as a win of X
end_game_o_as_x(winner) ==
    /\ game_over' = TRUE
    /\ records' = IF winner = "Draw" THEN [records EXCEPT !.draws = @ + 1]
                  ELSE [records EXCEPT !.player_x_wins = @ + 1]

\* end_game(winner)
end_game(winner) ==
    /\ game_over' = TRUE
    /\ records' = IF winner = "Draw" THEN [records EXCEPT !.draws = @ + 1]
                  ELSE IF winner = "X" THEN [records EXCEPT !.player_x_wins = @ + 1]
                  ELSE [records EXCEPT !.player_o_wins = @ + 1]

\* make_move with the draw test ahead of the win test
make_move_draw_first(b, row, col, player) ==
    /\ board' = [b EXCEPT ![row][col] = player]
    /\ IF check_draw(board')
       THEN end_game("Draw") /\ UNCHANGED current_player
       ELSE IF check_winner(board', player)
       THEN end_game(player) /\ UNCHANGED current_player
       ELSE /\ current_player' = IF current_player = "X" THEN "O" ELSE "X"
            /\ UNCHANGED <<game_over, records>>

\* make_move(row, col, player), b being self.board when it is called
make_move(b, row, col, player) ==
    /\ board' = [b EXCEPT ![row][col] = player]
    /\ IF check_winner(board', player)
       THEN end_game(player) /\ UNCHANGED current_player
       ELSE IF check_draw(board')
       THEN end_game("Draw") /\ UNCHANGED current_player
       ELSE /\ current_player' = IF current_player = "X" THEN "O" ELSE "X"
            /\ UNCHANGED <<game_over, records>>

\* show_frame(page_name), from the button that calls it: Play Game and Settings &
\* Records are on the welcome frame, Back to Menu and Main Menu on the other two.
\* GameFrame.on_show starts a new game; SettingsFrame.on_show redraws a label.
show_frame(page_name) ==
    /\ IF page_name = "WelcomeFrame" THEN frame # "WelcomeFrame" ELSE frame = "WelcomeFrame"
    /\ frame' = page_name
    /\ IF page_name = "GameFrame"
       THEN Rounds < MaxRounds /\ start_new_game
       ELSE UNCHANGED <<board, current_player, game_over>>
    /\ UNCHANGED <<game_mode, records, pending, search>>

\* the game mode radio buttons of the settings frame
select_game_mode(mode) ==
    /\ frame = "SettingsFrame"
    /\ game_mode' = mode
    /\ UNCHANGED <<board, current_player, game_over, records, frame, pending, search>>

\* on_board_click without its first line, if self.game_over: return
on_board_click_unguarded(row, col) ==
    /\ frame = "GameFrame"
    /\ UNCHANGED <<game_mode, frame, search>>
    /\ IF board[row][col] = ""
       THEN /\ make_move(board, row, col, current_player)
            /\ IF ~game_over' /\ game_mode = "1P" /\ current_player' = "O"
               THEN pending < MaxPending /\ pending' = pending + 1
               ELSE pending' = pending
       ELSE UNCHANGED <<board, current_player, game_over, records, pending>>

\* on_board_click without the test that the cell is empty
on_board_click_overwrite(row, col) ==
    /\ frame = "GameFrame"
    /\ UNCHANGED <<game_mode, frame, search>>
    /\ IF game_over
       THEN UNCHANGED <<board, current_player, game_over, records, pending>>
       ELSE /\ make_move(board, row, col, current_player)
            /\ IF ~game_over' /\ game_mode = "1P" /\ current_player' = "O"
               THEN pending < MaxPending /\ pending' = pending + 1
               ELSE pending' = pending

\* on_board_click(event), the click landing in cell (row, col)
on_board_click(row, col) ==
    /\ frame = "GameFrame"
    /\ UNCHANGED <<game_mode, frame, search>>
    /\ IF game_over
       THEN UNCHANGED <<board, current_player, game_over, records, pending>>
       ELSE IF board[row][col] = ""
       THEN /\ make_move(board, row, col, current_player)
            /\ IF ~game_over' /\ game_mode = "1P" /\ current_player' = "O"
               THEN pending < MaxPending /\ pending' = pending + 1
               ELSE pending' = pending
       ELSE UNCHANGED <<board, current_player, game_over, records, pending>>

\* ai_move without its first line, if self.game_over: return
ai_move_unguarded ==
    /\ pending > 0
    /\ pending' = pending - 1
    /\ UNCHANGED <<game_mode, frame, search>>
    /\ LET s == best_move_of(board)
       IN  IF s.best_move # <<>>
           THEN make_move(s.board, s.best_move[1], s.best_move[2], "O")
           ELSE board' = s.board /\ UNCHANGED <<current_player, game_over, records>>

\* ai_move(), fired by the timer
ai_move ==
    /\ pending > 0
    /\ pending' = pending - 1
    /\ UNCHANGED <<game_mode, frame, search>>
    /\ IF game_over
       THEN UNCHANGED <<board, current_player, game_over, records>>
       ELSE LET s == best_move_of(board)
            IN  IF s.best_move # <<>>
                THEN make_move(s.board, s.best_move[1], s.best_move[2], "O")
                ELSE board' = s.board /\ UNCHANGED <<current_player, game_over, records>>

\* What the last event was, told from the event and the state it met: the names
\* of the handlers, a click split by what it landed on.
show_kind(page_name) == IF page_name = "GameFrame" THEN "start_new_game" ELSE "show_frame"
click_kind(row, col) ==
    IF board[row][col] # "" THEN "click_occupied"
    ELSE IF game_over THEN "click_game_over"
    ELSE "click_move"
ai_kind == IF game_over THEN "ai_game_over" ELSE "ai_move"

Init ==
    /\ board = EmptyBoard
    /\ current_player = "X"
    /\ game_over = FALSE
    /\ game_mode = "2P"
    /\ records = [player_x_wins |-> 0, player_o_wins |-> 0, draws |-> 0]
    /\ frame = "WelcomeFrame"
    /\ pending = 0
    /\ handler = "init"
    /\ search = NoSearch

Next ==
    \/ \E page_name \in {"WelcomeFrame", "SettingsFrame", "GameFrame"} :
          show_frame(page_name) /\ handler' = show_kind(page_name)
    \/ \E mode \in {"2P", "1P"} : select_game_mode(mode) /\ handler' = "game_mode"
    \/ \E row \in Idx, col \in Idx : on_board_click(row, col) /\ handler' = click_kind(row, col)
    \/ ai_move /\ handler' = ai_kind

Spec == Init /\ [][Next]_vars

\* ---------------------------------------------------------------- the search alone
\* The search run on every board there is: the board is drawn by InitSearch, one
\* call is made on it, and search keeps what went in and what came out.
Call(name, is_maximizing, r) ==
    [call |-> name, is_maximizing |-> is_maximizing, before |-> board,
     score |-> r.score, best_move |-> r.best_move, after |-> r.board]

run_minimax(is_maximizing) ==
    /\ search = NoSearch
    /\ LET r == minimax(board, 0, is_maximizing)
       IN  /\ board' = r.board
           /\ search' = Call("minimax", is_maximizing, r @@ [best_move |-> <<>>])
    /\ handler' = "minimax"
    /\ UNCHANGED <<current_player, game_over, game_mode, records, frame, pending>>

run_minimax_direct(is_maximizing) ==
    /\ search = NoSearch
    /\ CountOf(board, "") <= MaxEmpty
    /\ LET r == minimax_direct(board, 0, is_maximizing)
       IN  /\ board' = r.board
           /\ search' = Call("minimax_direct", is_maximizing, r @@ [best_move |-> <<>>])
    /\ handler' = "minimax"
    /\ UNCHANGED <<current_player, game_over, game_mode, records, frame, pending>>

run_ai_search ==
    /\ search = NoSearch
    /\ LET s == best_move_of(board)
       IN  /\ board' = s.board
           /\ search' = Call("ai_move", FALSE, [score |-> s.best_score, best_move |-> s.best_move, board |-> s.board])
    /\ handler' = "ai_move"
    /\ UNCHANGED <<current_player, game_over, game_mode, records, frame, pending>>

InitSearch ==
    /\ board \in {BoardOf[c] : c \in 1..NumBoards}
    /\ current_player = "X"
    /\ game_over = FALSE
    /\ game_mode = "1P"
    /\ records = [player_x_wins |-> 0, player_o_wins |-> 0, draws |-> 0]
    /\ frame = "GameFrame"
    /\ pending = 0
    /\ handler = "init"
    /\ search = NoSearch

NextSearch ==
    \/ \E is_maximizing \in BOOLEAN : run_minimax(is_maximizing)
    \/ \E is_maximizing \in BOOLEAN : run_minimax_direct(is_maximizing)
    \/ run_ai_search

SpecSearch == InitSearch /\ [][NextSearch]_vars

\* ---------------------------------------------------------------- perfect play
\* A round of player-vs-computer in which X clicks only cells that are optimal for
\* X (the position after the click has the least minimax score, O to move) and
\* every click waits for the computer's answer.
XScore(b, c) == minimax(place(b, c[1], c[2], "X"), 0, TRUE).score
XOptimal(b) ==
    {c \in Cells : /\ b[c[1]][c[2]] = ""
                   /\ \A d \in Cells : b[d[1]][d[2]] = "" => XScore(b, c) <= XScore(b, d)}

optimal_click(row, col) ==
    /\ ~game_over /\ current_player = "X" /\ pending = 0
    /\ <<row, col>> \in XOptimal(board)
    /\ on_board_click(row, col)
    /\ handler' = click_kind(row, col)

InitPerfect ==
    /\ board = EmptyBoard
    /\ current_player = "X"
    /\ game_over = FALSE
    /\ game_mode = "1P"
    /\ records = [player_x_wins |-> 0, player_o_wins |-> 0, draws |-> 0]
    /\ frame = "GameFrame"
    /\ pending = 0
    /\ handler = "start_new_game"
    /\ search = NoSearch

NextPerfect ==
    \/ \E row \in Idx, col \in Idx : optimal_click(row, col)
    \/ ai_move /\ handler' = ai_kind

SpecPerfect == InitPerfect /\ [][NextPerfect]_vars

\* ---------------------------------------------------------------- properties
\* The vocabulary of the properties, stated on the board alone.
Lines ==
    {{<<i, 0>>, <<i, 1>>, <<i, 2>>} : i \in Idx} \cup {{<<0, j>>, <<1, j>>, <<2, j>>} : j \in Idx}
    \cup {{<<0, 0>>, <<1, 1>>, <<2, 2>>}, {<<0, 2>>, <<1, 1>>, <<2, 0>>}}
OwnsLine(b, m) == \E l \in Lines : \A c \in l : b[c[1]][c[2]] = m
Full(b) == \A c \in Cells : b[c[1]][c[2]] # ""
NumMarks(b) == 9 - CountOf(b, "")
Other(m) == IF m = "X" THEN "O" ELSE "X"
RecordOf(winner) ==
    [player_x_wins |-> IF winner = "X" THEN 1 ELSE 0,
     player_o_wins |-> IF winner = "O" THEN 1 ELSE 0,
     draws |-> IF winner = "Draw" THEN 1 ELSE 0]
Grown(winner) ==
    /\ records'.player_x_wins = records.player_x_wins + RecordOf(winner).player_x_wins
    /\ records'.player_o_wins = records.player_o_wins + RecordOf(winner).player_o_wins
    /\ records'.draws = records.draws + RecordOf(winner).draws
\* the cells a step writes a mark into
Placed == {c \in Cells : board[c[1]][c[2]] = "" /\ board'[c[1]][c[2]] # ""}

\* C1: between handlers the board holds as many X as O, or one X more.
C1_MarkCount ==
    \/ CountOf(board, "X") = CountOf(board, "O")
    \/ CountOf(board, "X") = CountOf(board, "O") + 1

\* C2: in 1P mode no step counts a win for X.
C2_Unbeaten == [][game_mode = "1P" => records'.player_x_wins = records.player_x_wins]_vars

\* C3: a step that places a mark ends the round as a win of the mover when the
\* mover owns a line (also on a full board), else as a draw when the board is
\* full, else toggles current_player and leaves the round in progress.
C3_MoveOutcome ==
    [][board' # board => \A c \in Placed :
          LET mover == board'[c[1]][c[2]]
          IN  IF OwnsLine(board', mover)
              THEN game_over' /\ Grown(mover) /\ current_player' = current_player
              ELSE IF Full(board')
              THEN game_over' /\ Grown("Draw") /\ current_player' = current_player
              ELSE ~game_over' /\ records' = records /\ current_player' = Other(current_player)]_vars
C3_Witness ==
    /\ handler \in {"click_move", "ai_move"}
    /\ game_over /\ Full(board) /\ OwnsLine(board, "X")
    /\ records = RecordOf("X")

\* C4: from a finished round a step either leaves board, current_player,
\* game_over and records alone, or is start_new_game.
C4_Absorbing ==
    [][game_over =>
          \/ UNCHANGED <<board, current_player, game_over, records>>
          \/ /\ handler' = "start_new_game"
             /\ board' = EmptyBoard /\ current_player' = "X" /\ ~game_over'
             /\ records' = records]_vars
C4_Witness == game_over /\ handler = "ai_game_over" /\ Rounds = 1

\* C5: game_over holds exactly when a line is complete or the board is full.
C5_TerminalExact ==
    game_over <=> (OwnsLine(board, "X") \/ OwnsLine(board, "O") \/ Full(board))
C5_Witness ==
    /\ game_over /\ Full(board)
    /\ ~OwnsLine(board, "X") /\ ~OwnsLine(board, "O")
    /\ records = RecordOf("Draw")

\* C6: X and O never both own a complete line.
C6_OneWinner == ~(OwnsLine(board, "X") /\ OwnsLine(board, "O"))
C6_Witness == game_over /\ OwnsLine(board, "O") /\ CountOf(board, "X") >= 3

\* C7: a click on a non-empty cell changes nothing and schedules no ai_move.
C7_OccupiedNoOp ==
    [][handler' = "click_occupied" =>
          UNCHANGED <<board, current_player, game_over, records, pending, game_mode, frame>>]_vars
C7_Witness == handler = "click_occupied" /\ ~game_over /\ NumMarks(board) = 1

\* C8: every search call leaves the board as it found it: minimax for either
\* player, and the search loop of ai_move.
C8_RoundTrip == search # NoSearch => (search.after = search.before /\ board = search.before)
C8_Witness ==
    /\ search # NoSearch /\ search.call = "ai_move"
    /\ CountOf(search.before, "") = 8 /\ search.best_move # <<>>

\* C9: on a board with no complete line and an empty cell, ai_move chooses the
\* first cell in row-major order among the empty cells of the greatest minimax
\* score (O placed there, X to move).
OScore(b, c) == minimax(place(b, c[1], c[2], "O"), 0, FALSE).score
Empties(b) == {c \in Cells : b[c[1]][c[2]] = ""}
BestCells(b) == {c \in Empties(b) : \A d \in Empties(b) : OScore(b, c) >= OScore(b, d)}
RowMajor(c) == 3 * c[1] + c[2]
FirstBest(b) == CHOOSE c \in BestCells(b) : \A d \in BestCells(b) : RowMajor(c) <= RowMajor(d)
C9_RowMajorFirst ==
    (/\ search # NoSearch /\ search.call = "ai_move"
     /\ ~OwnsLine(search.before, "X") /\ ~OwnsLine(search.before, "O") /\ ~Full(search.before))
    => search.best_move = FirstBest(search.before)
C9_Witness ==
    /\ search # NoSearch /\ search.call = "ai_move"
    /\ ~OwnsLine(search.before, "X") /\ ~OwnsLine(search.before, "O")
    /\ Cardinality(BestCells(search.before)) >= 2
    /\ search.best_move = <<1, 1>>

\* C10: under perfect play a finished round is a draw, and a round that is not
\* finished can go on.
C10_PerfectDraw ==
    /\ game_over => (records = RecordOf("Draw") /\ ~OwnsLine(board, "X") /\ ~OwnsLine(board, "O"))
    /\ ~game_over => ENABLED NextPerfect
C10_Witness == game_over /\ Full(board) /\ records = RecordOf("Draw")

\* C11: a step that ends a round adds 1 to the counter of its outcome (X owns a
\* line, O owns a line, or the board is full with no line) and leaves the other
\* two alone; every other step leaves the three counters alone.
C11_OutcomeCounted ==
    [][IF ~game_over /\ game_over'
       THEN \/ OwnsLine(board', "X") /\ ~OwnsLine(board', "O") /\ Grown("X")
            \/ OwnsLine(board', "O") /\ ~OwnsLine(board', "X") /\ Grown("O")
            \/ /\ Full(board') /\ ~OwnsLine(board', "X") /\ ~OwnsLine(board', "O")
               /\ Grown("Draw")
       ELSE records' = records]_vars
C11_Witness ==
    /\ handler = "ai_move" /\ game_mode = "1P"
    /\ game_over /\ OwnsLine(board, "O") /\ records = RecordOf("O")

\* C12: start_new_game leaves an empty board, X to move and the round in
\* progress, and the first mark of a round is an X.
C12_FreshRound ==
    /\ handler = "start_new_game" => (board = EmptyBoard /\ current_player = "X" /\ ~game_over)
    /\ NumMarks(board) = 1 => CountOf(board, "X") = 1

\* C13: every mark a step places is the mark of current_player before the step.
C13_Alternate == [][\A c \in Placed : board'[c[1]][c[2]] = current_player]_vars

\* C14: a move (click or ai_move) writes one mark into a cell that was empty and
\* leaves every other cell alone; no other step but start_new_game changes the
\* board.
C14_NoOverwrite ==
    [][IF board' = board
       THEN handler' \notin {"click_move", "ai_move"}
       ELSE \/ handler' = "start_new_game"
            \/ /\ handler' \in {"click_move", "ai_move"}
               /\ Cardinality(Placed) = 1
               /\ \A c \in Cells \ Placed : board'[c[1]][c[2]] = board[c[1]][c[2]]]_vars
C14_Witness == handler = "ai_move" /\ game_mode = "1P" /\ NumMarks(board) = 8 /\ ~game_over

\* C15: in 1P mode, on the game frame, while the round is in progress and it is
\* O's turn, an ai_move is pending.
C15_AnswerPending ==
    (game_mode = "1P" /\ frame = "GameFrame" /\ ~game_over /\ current_player = "O")
    => pending > 0

\* C16: in 1P mode every mark a click places is an X.
C16_HumanPlaysX ==
    [][(game_mode = "1P" /\ handler' = "click_move")
       => \A c \in Placed : board'[c[1]][c[2]] = "X"]_vars

\* The memo table holds what the recursion returns.
MemoExact ==
    (search # NoSearch /\ search.call = "minimax_direct")
    => /\ search.score = minimax(search.before, 0, search.is_maximizing).score
       /\ search.after = minimax(search.before, 0, search.is_maximizing).board
====
